---- MODULE Spec2Model ----
(***************************************************************************)
(* PersistedTokenCache instances (one per process) sharing one persistence *)
(* backend and one lock file, as in msal_extensions/token_cache.py and     *)
(* msal_extensions/filelock.py.                                            *)
(*                                                                         *)
(* Every process owns one PersistedTokenCache.  A cache entry is named by  *)
(* the process that writes it: process p's modify adds or removes entry p. *)
(* Wall-clock time (time.time() and the backend's modification time) is    *)
(* the integer now; a reading of the clock may or may not see it advanced. *)
(* The lock's deadline clock is elapsed[p], in hundredths of a second.     *)
(***************************************************************************)
EXTENDS Integers, Sequences, FiniteSets, TLC

\* ---------------------------------------------------------------- bounds
MaxTime == 3

\* ------------------------------------------------------ program constants
\* filelock.py: timeout = 5 (seconds), check_interval = 0.25 (seconds),
\* both in hundredths of a second; token_cache.py: retry = 3.
timeout == 500
check_interval == 25
retry == 3

\* two processes, each with its own PersistedTokenCache
Procs == {1, 2}
NoStore == [found |-> FALSE, bytes |-> <<>>]

\* the lock file's bytes: none while there is no file; __enter__ writes the
\* creator's pid and command; a file left by a process outside the model
NoFile == <<>>
LockContent(p) == <<p>>
StaleContent == <<0>>

VARIABLES
    now,        \* the wall clock
    store,      \* the backend: whether it was ever saved to, and its bytes
    mtime,      \* the backend's time_last_modified
    lockfile,   \* the lock file's bytes, NoFile when there is no lock file
    pc,         \* each process's position
    cache,      \* each instance's in-memory token cache (a set of entries)
    last_sync,  \* each instance's _last_sync
    attempt,    \* find's loop variable
    elapsed,    \* time since _create_lock_file computed timeout_end
    exc,        \* the exception the with-body of modify is leaving with
    call,       \* the last call made: "none", "find" or "modify"
    result,     \* how the last call ended: "none" while it runs
    loads,      \* number of persistence.load() calls made by the last call
    rmres,      \* outcome of the os.remove of the last call's __exit__
    meddled     \* whether somebody outside the processes touched the lock file

vars == <<now, store, mtime, lockfile, pc, cache, last_sync, attempt,
          elapsed, exc, call, result, loads, rmres, meddled>>

shared == <<now, store, mtime, lockfile, meddled>>

\* --------------------------------------------------------- pure functions
RECURSIVE SortedSeq(_)
SortedSeq(S) ==
    IF S = {} THEN <<>>
    ELSE LET m == CHOOSE x \in S : \A y \in S : x <= y
         IN  <<m>> \o SortedSeq(S \ {m})

\* self.serialize(): the cache as bytes (here: the sorted list of entries)
Serialize(c) == SortedSeq(c)

\* self.deserialize(state): empty bytes give an empty cache
Deserialize(b) == IF b = <<>> THEN {} ELSE {b[i] : i \in 1..Len(b)}

\* super().modify(...): add or update the entry, or remove it
Mutate(c, e, kind) == IF kind = "add" THEN c \cup {e} ELSE c \ {e}

\* time.time(), and the backend's clock at save: the clock read d later
ClockRead(d) == now + d

\* ------------------------------------------------------------------ Init
\* PersistedTokenCache.__init__: an empty cache, _last_sync = 0.  The backend
\* has never been saved to, no lock file exists, and the clock is a Unix
\* time, hence after 0.
Init ==
    /\ now = 1
    /\ store = NoStore
    /\ mtime = 0
    /\ lockfile = NoFile
    /\ pc = [p \in Procs |-> "idle"]
    /\ cache = [p \in Procs |-> {}]
    /\ last_sync = [p \in Procs |-> 0]
    /\ attempt = [p \in Procs |-> 1]
    /\ elapsed = [p \in Procs |-> 0]
    /\ exc = [p \in Procs |-> "none"]
    /\ call = [p \in Procs |-> "none"]
    /\ result = [p \in Procs |-> "none"]
    /\ loads = [p \in Procs |-> 0]
    /\ rmres = [p \in Procs |-> "none"]
    /\ meddled = FALSE

\* ------------------------------------------------- the persistence backend
\* time_last_modified() and load() raise PersistenceNotFound when nothing
\* was saved
BackendFound == store.found

\* time_last_modified(): when the backend was last saved to
time_last_modified == mtime

\* load(): the bytes last saved
load == store.bytes

\* save(bytes) at time t replaces the backend's bytes in one step
save(b, t) ==
    /\ store' = [found |-> TRUE, bytes |-> b]
    /\ mtime' = t

\* ---------------------------------------------- _reload_if_necessary

\* (mutant) <= for <: a backend as old as last_sync is reloaded too
ReloadNeededOrEqual(p) == store.found /\ last_sync[p] <= mtime

\* self._last_sync < self._persistence.time_last_modified()
ReloadNeeded(p) == BackendFound /\ last_sync[p] < time_last_modified

\* the caller's state when a call ends
Return(p, how) ==
    /\ pc' = [pc EXCEPT ![p] = "idle"]
    /\ result' = [result EXCEPT ![p] = how]
    /\ attempt' = [attempt EXCEPT ![p] = 1]

\* (mutant) find takes the lock as modify does, and keeps it
FindCallLocking(p) ==
    /\ pc[p] = "idle"
    /\ lockfile = NoFile
    /\ lockfile' = <<p>>
    /\ pc' = [pc EXCEPT ![p] = "f_check"]
    /\ attempt' = [attempt EXCEPT ![p] = 1]
    /\ call' = [call EXCEPT ![p] = "find"]
    /\ result' = [result EXCEPT ![p] = "none"]
    /\ loads' = [loads EXCEPT ![p] = 0]
    /\ rmres' = [rmres EXCEPT ![p] = "none"]
    /\ exc' = [exc EXCEPT ![p] = "none"]
    /\ UNCHANGED <<now, store, mtime, meddled, cache, last_sync, elapsed>>

\* ------------------------------------------------------------------ find
FindCall(p) ==
    /\ pc[p] = "idle"
    /\ pc' = [pc EXCEPT ![p] = "f_check"]
    /\ attempt' = [attempt EXCEPT ![p] = 1]
    /\ call' = [call EXCEPT ![p] = "find"]
    /\ result' = [result EXCEPT ![p] = "none"]
    /\ loads' = [loads EXCEPT ![p] = 0]
    /\ rmres' = [rmres EXCEPT ![p] = "none"]
    /\ exc' = [exc EXCEPT ![p] = "none"]
    /\ UNCHANGED <<shared, cache, last_sync, elapsed>>

\* (mutant) PersistenceNotFound is not caught in _reload_if_necessary: find
\* takes it for a failed reload and, here, raises it
FindCheckNotFoundRaises(p) ==
    /\ pc[p] = "f_check"
    /\ IF ~BackendFound THEN Return(p, "PersistenceNotFound")
       ELSE IF ReloadNeeded(p)
       THEN pc' = [pc EXCEPT ![p] = "f_load"] /\ UNCHANGED <<result, attempt>>
       ELSE Return(p, "returned")
    /\ UNCHANGED <<shared, cache, last_sync, elapsed, exc,
                   call, loads, rmres>>

\* the comparison of _reload_if_necessary; with nothing to reload the attempt
\* has succeeded and find returns super().find(...) on the in-memory cache
FindCheck(p) ==
    /\ pc[p] = "f_check"
    /\ IF ReloadNeeded(p)
       THEN pc' = [pc EXCEPT ![p] = "f_load"] /\ UNCHANGED <<result, attempt>>
       ELSE Return(p, "returned")
    /\ UNCHANGED <<shared, cache, last_sync, elapsed, exc,
                   call, loads, rmres>>

\* self.deserialize(self._persistence.load()) succeeds; a backend that is
\* gone by now raises PersistenceNotFound, which ends the reload quietly
FindLoadOk(p) ==
    /\ pc[p] = "f_load"
    /\ loads' = [loads EXCEPT ![p] = @ + 1]
    /\ IF BackendFound
       THEN /\ cache' = [cache EXCEPT ![p] = Deserialize(load)]
            /\ pc' = [pc EXCEPT ![p] = "f_sync"]
            /\ UNCHANGED <<result, attempt>>
       ELSE Return(p, "returned") /\ UNCHANGED cache
    /\ UNCHANGED <<shared, last_sync, elapsed, exc, call,
                   rmres>>

\* (mutant) the last failure is not re-raised: find falls out of the loop
\* and returns []
FindLoadFailQuiet(p) ==
    /\ pc[p] = "f_load"
    /\ BackendFound
    /\ loads' = [loads EXCEPT ![p] = @ + 1]
    /\ IF attempt[p] < retry
       THEN /\ attempt' = [attempt EXCEPT ![p] = @ + 1]
            /\ pc' = [pc EXCEPT ![p] = "f_check"]
            /\ UNCHANGED result
       ELSE Return(p, "returned")
    /\ UNCHANGED <<shared, cache, last_sync, elapsed, exc, call,
                   rmres>>

\* (mutant) _last_sync is stamped in a finally clause, also when load raised
FindLoadFailMarksSynced(p) ==
    /\ pc[p] = "f_load"
    /\ BackendFound
    /\ loads' = [loads EXCEPT ![p] = @ + 1]
    /\ last_sync' = [last_sync EXCEPT ![p] = now]
    /\ IF attempt[p] < retry
       THEN /\ attempt' = [attempt EXCEPT ![p] = @ + 1]
            /\ pc' = [pc EXCEPT ![p] = "f_check"]
            /\ UNCHANGED result
       ELSE Return(p, "LoadError")
    /\ UNCHANGED <<shared, cache, elapsed, exc, call, rmres>>

\* load or deserialize raises: sleep and try again, or re-raise
FindLoadFail(p) ==
    /\ pc[p] = "f_load"
    /\ BackendFound
    /\ loads' = [loads EXCEPT ![p] = @ + 1]
    /\ IF attempt[p] < retry
       THEN /\ attempt' = [attempt EXCEPT ![p] = @ + 1]
            /\ pc' = [pc EXCEPT ![p] = "f_check"]
            /\ UNCHANGED result
       ELSE Return(p, "LoadError")
    /\ UNCHANGED <<shared, cache, last_sync, elapsed, exc, call,
                   rmres>>

\* (mutant) no return after a successful reload: the loop goes on to its
\* next attempt and find returns only after the last one
FindSyncContinues(p, d) ==
    /\ pc[p] = "f_sync"
    /\ ClockRead(d) <= MaxTime
    /\ now' = ClockRead(d)
    /\ last_sync' = [last_sync EXCEPT ![p] = ClockRead(d)]
    /\ IF attempt[p] < retry
       THEN /\ attempt' = [attempt EXCEPT ![p] = @ + 1]
            /\ pc' = [pc EXCEPT ![p] = "f_check"]
            /\ UNCHANGED result
       ELSE Return(p, "returned")
    /\ UNCHANGED <<store, mtime, lockfile, meddled, cache, elapsed,
                   exc, call, loads, rmres>>

\* self._last_sync = time.time(), then the lookup
FindSync(p, d) ==
    /\ pc[p] = "f_sync"
    /\ ClockRead(d) <= MaxTime
    /\ now' = ClockRead(d)
    /\ last_sync' = [last_sync EXCEPT ![p] = ClockRead(d)]
    /\ Return(p, "returned")
    /\ UNCHANGED <<store, mtime, lockfile, meddled, cache, elapsed,
                   exc, call, loads, rmres>>

\* ------------------------------------------------- CrossPlatLock.__enter__
ModifyCall(p) ==
    /\ pc[p] = "idle"
    /\ pc' = [pc EXCEPT ![p] = "acquire"]
    /\ elapsed' = [elapsed EXCEPT ![p] = 0]
    /\ call' = [call EXCEPT ![p] = "modify"]
    /\ result' = [result EXCEPT ![p] = "none"]
    /\ loads' = [loads EXCEPT ![p] = 0]
    /\ rmres' = [rmres EXCEPT ![p] = "none"]
    /\ exc' = [exc EXCEPT ![p] = "none"]
    /\ UNCHANGED <<shared, cache, last_sync, attempt>>

\* (mutant) while True: the deadline is never looked at
NoDeadline(p) == TRUE

\* while timeout_end > current_time()
BeforeDeadline(p) == elapsed[p] < timeout

\* (mutant) open(self._lockpath, 'wb'): an existing file is overwritten
CanCreateOverwrite == TRUE

\* open(self._lockpath, 'xb') creates the file only if there is none
CanCreate == lockfile = NoFile

\* (mutant) __enter__ returns without a lock file having been created
AcquireOkNoFile(p) ==
    /\ pc[p] = "acquire"
    /\ BeforeDeadline(p)
    /\ CanCreate
    /\ pc' = [pc EXCEPT ![p] = "m_check"]
    /\ elapsed' = [elapsed EXCEPT ![p] = 0]
    /\ UNCHANGED <<shared, cache, last_sync, attempt, exc,
                   call, result, loads, rmres>>

AcquireOk(p) ==
    /\ pc[p] = "acquire"
    /\ BeforeDeadline(p)
    /\ CanCreate
    /\ lockfile' = LockContent(p)
    /\ pc' = [pc EXCEPT ![p] = "m_check"]
    /\ elapsed' = [elapsed EXCEPT ![p] = 0]
    /\ UNCHANGED <<now, store, mtime, meddled, cache, last_sync, attempt, exc,
                   call, result, loads, rmres>>

\* FileExistsError: time.sleep(check_interval), which may return late
AcquireRetry(p, late) ==
    /\ pc[p] = "acquire"
    /\ BeforeDeadline(p)
    /\ ~CanCreate
    /\ elapsed' = [elapsed EXCEPT ![p] = @ + check_interval + late]
    /\ UNCHANGED <<shared, pc, cache, last_sync, attempt, exc, call,
                   result, loads, rmres>>

\* (mutant) the lock file is removed on the way out of a failed acquisition,
\* as if __exit__ ran although __enter__ raised
AcquireTimeoutReleases(p) ==
    /\ pc[p] = "acquire"
    /\ ~BeforeDeadline(p)
    /\ Return(p, "LockError")
    /\ elapsed' = [elapsed EXCEPT ![p] = 0]
    /\ lockfile' = NoFile
    /\ UNCHANGED <<now, store, mtime, meddled, cache, last_sync, exc, call,
                   loads, rmres>>

\* the loop ends: raise LockError; the with-body and __exit__ do not run
AcquireTimeout(p) ==
    /\ pc[p] = "acquire"
    /\ ~BeforeDeadline(p)
    /\ Return(p, "LockError")
    /\ elapsed' = [elapsed EXCEPT ![p] = 0]
    /\ UNCHANGED <<shared, cache, last_sync, exc, call,
                   loads, rmres>>

\* --------------------------------------------------- modify, the with-body
\* an exception leaves the with-body: __exit__ runs next
Raise(p, what) ==
    /\ exc' = [exc EXCEPT ![p] = what]
    /\ pc' = [pc EXCEPT ![p] = "m_exit"]

ModifyCheck(p) ==
    /\ pc[p] = "m_check"
    /\ pc' = [pc EXCEPT ![p] = IF ReloadNeeded(p) THEN "m_load" ELSE "m_mutate"]
    /\ UNCHANGED <<shared, cache, last_sync, attempt, elapsed, exc,
                   call, result, loads, rmres>>

ModifyLoadOk(p) ==
    /\ pc[p] = "m_load"
    /\ loads' = [loads EXCEPT ![p] = @ + 1]
    /\ IF BackendFound
       THEN /\ cache' = [cache EXCEPT ![p] = Deserialize(load)]
            /\ pc' = [pc EXCEPT ![p] = "m_sync"]
       ELSE /\ pc' = [pc EXCEPT ![p] = "m_mutate"]
            /\ UNCHANGED cache
    /\ UNCHANGED <<shared, last_sync, attempt, elapsed, exc, call,
                   result, rmres>>

\* (mutant) modify retries a failed reload the way find does
ModifyLoadFailRetry(p) ==
    /\ pc[p] = "m_load"
    /\ BackendFound
    /\ loads' = [loads EXCEPT ![p] = @ + 1]
    /\ IF loads[p] + 1 < retry
       THEN pc' = [pc EXCEPT ![p] = "m_check"] /\ UNCHANGED exc
       ELSE Raise(p, "LoadError")
    /\ UNCHANGED <<shared, cache, last_sync, attempt, elapsed, call,
                   result, rmres>>

ModifyLoadFail(p) ==
    /\ pc[p] = "m_load"
    /\ BackendFound
    /\ loads' = [loads EXCEPT ![p] = @ + 1]
    /\ Raise(p, "LoadError")
    /\ UNCHANGED <<shared, cache, last_sync, attempt, elapsed, call,
                   result, rmres>>

ModifySync(p, d) ==
    /\ pc[p] = "m_sync"
    /\ ClockRead(d) <= MaxTime
    /\ now' = ClockRead(d)
    /\ last_sync' = [last_sync EXCEPT ![p] = ClockRead(d)]
    /\ pc' = [pc EXCEPT ![p] = "m_mutate"]
    /\ UNCHANGED <<store, mtime, lockfile, meddled, cache, attempt, elapsed,
                   exc, call, result, loads, rmres>>

\* super().modify(credential_type, old_entry, new_key_value_pairs)
ModifyMutate(p, kind) ==
    /\ pc[p] = "m_mutate"
    /\ cache' = [cache EXCEPT ![p] = Mutate(@, p, kind)]
    /\ pc' = [pc EXCEPT ![p] = "m_save"]
    /\ UNCHANGED <<shared, last_sync, attempt, elapsed, exc, call,
                   result, loads, rmres>>

ModifyMutateFail(p) ==
    /\ pc[p] = "m_mutate"
    /\ Raise(p, "MutateError")
    /\ UNCHANGED <<shared, cache, last_sync, attempt, elapsed, call,
                   result, loads, rmres>>

\* self._persistence.save(self.serialize())
ModifySave(p, d) ==
    /\ pc[p] = "m_save"
    /\ ClockRead(d) <= MaxTime
    /\ now' = ClockRead(d)
    /\ save(Serialize(cache[p]), ClockRead(d))
    /\ pc' = [pc EXCEPT ![p] = "m_stamp"]
    /\ UNCHANGED <<lockfile, meddled, cache, last_sync, attempt, elapsed, exc,
                   call, result, loads, rmres>>

\* (mutant) try/finally: _last_sync is stamped although save() raised
ModifySaveFailStamps(p) ==
    /\ pc[p] = "m_save"
    /\ last_sync' = [last_sync EXCEPT ![p] = now]
    /\ Raise(p, "SaveError")
    /\ UNCHANGED <<shared, cache, attempt, elapsed, call,
                   result, loads, rmres>>

ModifySaveFail(p) ==
    /\ pc[p] = "m_save"
    /\ Raise(p, "SaveError")
    /\ UNCHANGED <<shared, cache, last_sync, attempt, elapsed, call,
                   result, loads, rmres>>

\* (mutant) modify returns after the save without stamping _last_sync
ModifyStampSkipped(p, d) ==
    /\ pc[p] = "m_stamp"
    /\ ClockRead(d) <= MaxTime
    /\ now' = ClockRead(d)
    /\ pc' = [pc EXCEPT ![p] = "m_exit"]
    /\ UNCHANGED <<store, mtime, lockfile, meddled, cache, last_sync, attempt,
                   elapsed, exc, call, result, loads, rmres>>

\* self._last_sync = time.time()
ModifyStamp(p, d) ==
    /\ pc[p] = "m_stamp"
    /\ ClockRead(d) <= MaxTime
    /\ now' = ClockRead(d)
    /\ last_sync' = [last_sync EXCEPT ![p] = ClockRead(d)]
    /\ pc' = [pc EXCEPT ![p] = "m_exit"]
    /\ UNCHANGED <<store, mtime, lockfile, meddled, cache, attempt, elapsed,
                   exc, call, result, loads, rmres>>

\* -------------------------------------------------- CrossPlatLock.__exit__
\* what os.remove(self._lockpath) can answer: ENOENT when there is no file;
\* otherwise it removes the file, unless the system refuses with one of faults
\* (a refusal comes from outside the processes, which meddle once at most)
RemoveOutcomes(faults) ==
    IF lockfile = NoFile THEN {"ENOENT"}
    ELSE {"removed"} \cup (IF meddled THEN {} ELSE faults)

\* (mutant) every OSError of os.remove is raised
ExitResultStrict(p, r) ==
    IF r # "removed" THEN "RemoveError"
    ELSE IF exc[p] # "none" THEN exc[p]
    ELSE "returned"

\* ENOENT and EACCES are logged; any other OSError is raised.  Without one,
\* the exception of the with-body, if any, goes on to the caller.
ExitResult(p, r) ==
    IF r \notin {"removed", "ENOENT", "EACCES"} THEN "RemoveError"
    ELSE IF exc[p] # "none" THEN exc[p]
    ELSE "returned"

\* (mutant) no with-statement: the lock file is removed only at the end of
\* the body, so an exception in the body leaves it behind
ExitOnlyOnSuccess(p, r) ==
    /\ pc[p] = "m_exit"
    /\ lockfile' = IF r = "removed" /\ exc[p] = "none" THEN NoFile ELSE lockfile
    /\ rmres' = [rmres EXCEPT ![p] = r]
    /\ Return(p, ExitResult(p, r))
    /\ exc' = [exc EXCEPT ![p] = "none"]
    /\ meddled' = (meddled \/ r \notin {"removed", "ENOENT"})
    /\ UNCHANGED <<now, store, mtime, cache, last_sync, elapsed, call, loads>>

Exit(p, r) ==
    /\ pc[p] = "m_exit"
    /\ lockfile' = IF r = "removed" THEN NoFile ELSE lockfile
    /\ rmres' = [rmres EXCEPT ![p] = r]
    /\ Return(p, ExitResult(p, r))
    /\ exc' = [exc EXCEPT ![p] = "none"]
    /\ meddled' = (meddled \/ r \notin {"removed", "ENOENT"})
    /\ UNCHANGED <<now, store, mtime, cache, last_sync, elapsed, call, loads>>

\* ------------------------------------------- a nested CrossPlatLock
\* A client enters a second `with CrossPlatLock(path)` on the same path from
\* inside the with-body of the first, here at the end of the body.  The
\* inner with-body is empty.

\* the inner __enter__: _create_lock_file starts a new deadline
NestedCall(p) ==
    /\ pc[p] = "m_exit"
    /\ exc[p] = "none"
    /\ pc' = [pc EXCEPT ![p] = "n_acquire"]
    /\ elapsed' = [elapsed EXCEPT ![p] = 0]
    /\ UNCHANGED <<shared, cache, last_sync, attempt, exc, call,
                   result, loads, rmres>>

\* (mutant) a reentrant lock: the holder's own lock file does not block it
NestedOkReentrant(p) ==
    /\ pc[p] = "n_acquire"
    /\ BeforeDeadline(p)
    /\ lockfile \in {NoFile, LockContent(p)}
    /\ lockfile' = LockContent(p)
    /\ pc' = [pc EXCEPT ![p] = "n_exit"]
    /\ elapsed' = [elapsed EXCEPT ![p] = 0]
    /\ UNCHANGED <<now, store, mtime, meddled, cache, last_sync, attempt, exc,
                   call, result, loads, rmres>>

\* open(self._lockpath, 'xb') succeeds: only if the file is gone
NestedOk(p) ==
    /\ pc[p] = "n_acquire"
    /\ BeforeDeadline(p)
    /\ CanCreate
    /\ lockfile' = LockContent(p)
    /\ pc' = [pc EXCEPT ![p] = "n_exit"]
    /\ elapsed' = [elapsed EXCEPT ![p] = 0]
    /\ UNCHANGED <<now, store, mtime, meddled, cache, last_sync, attempt, exc,
                   call, result, loads, rmres>>

NestedRetry(p, late) ==
    /\ pc[p] = "n_acquire"
    /\ BeforeDeadline(p)
    /\ ~CanCreate
    /\ elapsed' = [elapsed EXCEPT ![p] = @ + check_interval + late]
    /\ UNCHANGED <<shared, pc, cache, last_sync, attempt, exc, call,
                   result, loads, rmres>>

\* the inner __enter__ raises LockError, which leaves the outer with-body
NestedTimeout(p) ==
    /\ pc[p] = "n_acquire"
    /\ ~BeforeDeadline(p)
    /\ Raise(p, "LockError")
    /\ elapsed' = [elapsed EXCEPT ![p] = 0]
    /\ UNCHANGED <<shared, cache, last_sync, attempt, call,
                   result, loads, rmres>>

\* the inner __exit__ removes the lock file; the outer with-body goes on
NestedExit(p, r) ==
    /\ pc[p] = "n_exit"
    /\ lockfile' = IF r = "removed" THEN NoFile ELSE lockfile
    /\ pc' = [pc EXCEPT ![p] = "m_exit"]
    /\ UNCHANGED <<now, store, mtime, meddled, cache, last_sync, attempt,
                   elapsed, exc, call, result, loads, rmres>>

\* ------------------------------------------------- outside the processes
\* somebody removes the lock file by hand, as LockError's message suggests
ExternalRemove ==
    /\ ~meddled
    /\ meddled' = TRUE
    /\ lockfile # NoFile
    /\ lockfile' = NoFile
    /\ UNCHANGED <<now, store, mtime, pc, cache, last_sync, attempt,
                   elapsed, exc, call, result, loads, rmres>>

\* a process outside the model dies and leaves its lock file behind
StaleLock ==
    /\ ~meddled
    /\ meddled' = TRUE
    /\ lockfile = NoFile
    /\ lockfile' = StaleContent
    /\ UNCHANGED <<now, store, mtime, pc, cache, last_sync, attempt,
                   elapsed, exc, call, result, loads, rmres>>

\* somebody removes the lock file by hand while its holder is in __exit__
RemoveBeforeRelease ==
    /\ \E p \in Procs : pc[p] = "m_exit" /\ lockfile = LockContent(p)
    /\ ExternalRemove

\* somebody removes the lock file by hand while a nested acquisition waits
RemoveForNested ==
    /\ \E p \in Procs : pc[p] = "n_acquire"
    /\ ExternalRemove

\* --------------------------------------------------------- specifications
Ticks == {0, 1}
Lateness == {0, check_interval}
Kinds == {"add", "remove"}
RemoveFaults == {"EACCES", "EOTHER"}

FindStep(p) ==
    \/ FindCheck(p)
    \/ FindLoadOk(p)
    \/ FindLoadFail(p)
    \/ \E d \in Ticks : FindSync(p, d)

AcquireStep(p) ==
    \/ AcquireOk(p)
    \/ \E late \in Lateness : AcquireRetry(p, late)
    \/ AcquireTimeout(p)

BodyStep(p) ==
    \/ ModifyCheck(p)
    \/ ModifyLoadOk(p)
    \/ ModifyLoadFail(p)
    \/ \E d \in Ticks : ModifySync(p, d)
    \/ \E kind \in Kinds : ModifyMutate(p, kind)
    \/ ModifyMutateFail(p)
    \/ \E d \in Ticks : ModifySave(p, d)
    \/ ModifySaveFail(p)
    \/ \E d \in Ticks : ModifyStamp(p, d)

ProcStep(p) ==
    \/ FindCall(p)
    \/ FindStep(p)
    \/ ModifyCall(p)
    \/ AcquireStep(p)
    \/ BodyStep(p)

\* the processes alone: nobody else touches the lock file
Next ==
    \E p \in Procs :
        \/ ProcStep(p)
        \/ \E r \in RemoveOutcomes({}) : Exit(p, r)

Spec == Init /\ [][Next]_vars

\* the processes, and a lock file left behind that nobody removes
NextStale ==
    \/ \E p \in Procs :
        \/ ProcStep(p)
        \/ \E r \in RemoveOutcomes({}) : Exit(p, r)
    \/ StaleLock

SpecStale == Init /\ [][NextStale]_vars

\* the processes, and a lock file that others create, remove or hold open
NextEnv ==
    \/ \E p \in Procs :
        \/ ProcStep(p)
        \/ \E r \in RemoveOutcomes(RemoveFaults) : Exit(p, r)
    \/ ExternalRemove
    \/ StaleLock

SpecEnv == Init /\ [][NextEnv]_vars

NestedStep(p) ==
    \/ NestedCall(p)
    \/ NestedOk(p)
    \/ \E late \in Lateness : NestedRetry(p, late)
    \/ NestedTimeout(p)
    \/ \E r \in RemoveOutcomes({}) : NestedExit(p, r)

\* the users of the lock: processes that call modify, an os.remove that may
\* be refused, and somebody who removes the lock file by hand just before its
\* holder releases it
NextRelease ==
    \/ \E p \in Procs :
        \/ ModifyCall(p)
        \/ AcquireStep(p)
        \/ BodyStep(p)
        \/ \E r \in RemoveOutcomes(RemoveFaults) : Exit(p, r)
    \/ RemoveBeforeRelease

SpecRelease == Init /\ [][NextRelease]_vars

\* the clients that nest a second lock on the same path inside the first
Nesters == {1}

\* the users of the lock: processes that call modify, one of them nesting a
\* second lock inside the first, and somebody who removes the lock file by
\* hand
NextNested ==
    \/ \E p \in Procs :
        \/ ModifyCall(p)
        \/ AcquireStep(p)
        \/ BodyStep(p)
        \/ \E r \in RemoveOutcomes({}) : Exit(p, r)
    \/ \E p \in Nesters : NestedStep(p)
    \/ RemoveForNested

SpecNested == Init /\ [][NextNested]_vars

\* ================================================================ claims
\* positions between a successful creation of the lock file and its removal
InBody == {"m_check", "m_load", "m_sync", "m_mutate", "m_save", "m_stamp",
           "m_exit"}
FindPcs == {"f_check", "f_load", "f_sync"}
Entries(b) == IF b.found THEN Deserialize(b.bytes) ELSE {}

\* C1: mutual exclusion of writers: at no instant are two processes between
\* their lock-file creation and their lock-file removal, so the
\* reload-mutate-save sequences of two modify calls never overlap.
C1_MutualExclusion ==
    \A p, q \in Procs : p # q => ~(pc[p] \in InBody /\ pc[q] \in InBody)

\* a writer is about to save while the other one has been polling for the lock
C1_Witness ==
    pc[1] = "m_save" /\ pc[2] = "acquire" /\ elapsed[2] >= check_interval

\* C2: no lost update: once modify calls of two instances have both
\* completed successfully (and were their last calls), the persisted store
\* holds the effect of both: each one's own entry is in the store exactly if
\* its modify left it in its cache.
Modified(p) == pc[p] = "idle" /\ call[p] = "modify" /\ result[p] = "returned"
EffectPersisted(p) == (p \in cache[p]) <=> (p \in Entries(store))
C2_NoLostUpdate ==
    \A a, b \in Procs :
        a # b /\ Modified(a) /\ Modified(b)
            => EffectPersisted(a) /\ EffectPersisted(b)

\* C3: reload freshness: when every other process is between calls and the
\* backend holds entries of theirs that differ from what p has in memory,
\* p's find, at its comparison of last_sync with the backend's modification
\* time, reloads.
OthersLoaded(p) ==
    \A e \in Procs \ {p} : (e \in cache[p]) <=> (e \in Entries(store))
C3_ReloadFreshness ==
    \A p \in Procs :
        /\ pc[p] = "f_check"
        /\ \A q \in Procs \ {p} : pc[q] = "idle"
        /\ ~OthersLoaded(p)
        => ReloadNeeded(p)

\* C4: guaranteed release: a process that is between calls, in find, or still
\* acquiring has no lock file of its own; its lock file exists only while it
\* is in the with-body or in __exit__, whichever way the body was left.
C4_GuaranteedRelease ==
    \A p \in Procs : lockfile = LockContent(p) => pc[p] \in InBody

\* both modify calls have ended with an exception of the with-body, one from
\* the reload and one from the save, and no lock file is left
C4_Witness ==
    /\ pc[1] = "idle" /\ call[1] = "modify" /\ result[1] = "LoadError"
    /\ pc[2] = "idle" /\ call[2] = "modify" /\ result[2] = "SaveError"
    /\ lockfile = NoFile

\* C5: bounded lock acquisition.  While a process is acquiring, its deadline
\* clock is bounded and a step of the acquisition is possible; every such
\* step either ends the acquisition or lets at least one check_interval pass;
\* an attempt before the deadline succeeds, creating the file, exactly if
\* there is no lock file; the acquisition fails, with LockError and without
\* touching the lock file, only once the deadline has passed.  Hence at most
\* timeout / check_interval attempts, and no acquire waits forever.
AcquireEnds(p) ==
    IF ~BeforeDeadline(p)
    THEN pc'[p] = "idle" /\ result'[p] = "LockError" /\ lockfile' = lockfile
    ELSE IF lockfile = NoFile
    THEN pc'[p] = "m_check" /\ lockfile' = LockContent(p)
    ELSE /\ pc'[p] = "acquire"
         /\ elapsed'[p] >= elapsed[p] + check_interval
         /\ lockfile' = lockfile
C5_BoundedAcquire ==
    /\ [](\A p \in Procs :
            pc[p] = "acquire"
                => /\ elapsed[p] < timeout + 2 * check_interval
                   /\ ENABLED AcquireStep(p))
    /\ [][\A p \in Procs : AcquireStep(p) => AcquireEnds(p)]_vars

\* an acquisition has failed with LockError on a stale lock file that nobody
\* removed, and the file is still there
C5_Witness ==
    /\ pc[1] = "idle" /\ call[1] = "modify" /\ result[1] = "LockError"
    /\ lockfile = StaleContent

\* C6: find retries, then raises.  During find every earlier attempt has
\* failed with one load each, and after a failed attempt the backend is still
\* newer than last_sync, so the next attempt loads again; find raises the load
\* error only after retry (3) loads, and a find that returned after loading
\* has synced.
C6_FindRetryThenRaise ==
    \A p \in Procs :
        /\ pc[p] \in {"f_check", "f_load"}
            => attempt[p] <= retry /\ loads[p] = attempt[p] - 1
        /\ pc[p] = "f_check" /\ attempt[p] > 1 => ReloadNeeded(p)
        /\ pc[p] = "f_sync" => attempt[p] <= retry /\ loads[p] = attempt[p]
        /\ pc[p] = "idle" /\ call[p] = "find" /\ result[p] = "LoadError"
            => loads[p] = retry
        /\ pc[p] = "idle" /\ call[p] = "find" /\ result[p] = "returned"
            => loads[p] <= retry /\ (loads[p] > 0 => last_sync[p] > 0)
        /\ call[p] = "find" => result[p] \in {"none", "returned", "LoadError"}

\* a find has raised after three failed loads, never having synced
C6_Witness ==
    /\ pc[1] = "idle" /\ call[1] = "find" /\ result[1] = "LoadError"
    /\ loads[1] = retry /\ last_sync[1] = 0

\* C7: a missing backend is benign.  While the backend has never been saved
\* to, no process is loading or retrying; a find that has ended has returned,
\* with no load; a modify that has ended without creating the backend failed
\* for another reason than the reload (lock, mutation or save).  The backend
\* comes into being only by a modify's save of its serialized cache.
C7_MissingBackendBenign ==
    /\ [](~store.found =>
            \A p \in Procs :
                /\ pc[p] \notin {"f_load", "f_sync", "m_load", "m_sync"}
                /\ loads[p] = 0 /\ attempt[p] = 1
                /\ pc[p] = "idle" /\ call[p] = "find"
                    => result[p] = "returned"
                /\ pc[p] = "idle" /\ call[p] = "modify"
                    => result[p] \in {"LockError", "MutateError", "SaveError"})
    /\ [][~store.found /\ store'.found =>
            \E p \in Procs :
                /\ pc[p] = "m_save" /\ pc'[p] = "m_stamp"
                /\ store'.bytes = Serialize(cache[p])]_vars

\* a find has returned although there is no backend, then the other process's
\* modify, which had nothing to reload either, has created it
C7_Witness ==
    /\ pc[1] = "idle" /\ call[1] = "find" /\ result[1] = "returned"
    /\ loads[1] = 0 /\ last_sync[1] = 0
    /\ pc[2] = "idle" /\ call[2] = "modify" /\ result[2] = "returned"
    /\ loads[2] = 0 /\ store.found /\ 2 \in Entries(store)

\* C8: no reload when unnecessary.  A process is about to load only when the
\* backend exists and is strictly newer than its last_sync; and as long as no
\* other instance has made any call, an instance never loads, whatever finds
\* and modifies it makes.
Alone(p) == \A q \in Procs \ {p} : call[q] = "none"
C8_NoNeedlessReload ==
    \A p \in Procs :
        /\ pc[p] \in {"f_load", "m_load"} => store.found /\ last_sync[p] < mtime
        /\ Alone(p) => loads[p] = 0 /\ pc[p] \notin {"f_load", "m_load"}

\* the only instance has saved and then ended a find without loading
C8_Witness ==
    /\ Alone(1) /\ pc[1] = "idle" /\ call[1] = "find"
    /\ result[1] = "returned" /\ loads[1] = 0
    /\ store.found /\ 1 \in Entries(store) /\ last_sync[1] >= mtime

\* C9: release tolerance.  An os.remove that finds no lock file, or is denied
\* access, raises nothing to the caller (the call ends as its with-body did)
\* and changes neither the lock file nor the backend; any other failure of
\* os.remove reaches the caller.
C9_ReleaseTolerance ==
    /\ [](\A p \in Procs :
            pc[p] = "idle" /\ call[p] = "modify" =>
                /\ rmres[p] \in {"ENOENT", "EACCES"} => result[p] # "RemoveError"
                /\ rmres[p] = "EOTHER" => result[p] = "RemoveError"
                /\ rmres[p] = "none" => result[p] = "LockError")
    /\ [][\A p \in Procs :
            rmres'[p] # rmres[p] /\ rmres'[p] \in {"ENOENT", "EACCES", "EOTHER"}
                => lockfile' = lockfile /\ store' = store /\ mtime' = mtime]_vars

\* a modify has returned normally although its lock file was gone at release
C9_Witness ==
    /\ pc[1] = "idle" /\ call[1] = "modify" /\ rmres[1] = "ENOENT"
    /\ result[1] = "returned" /\ lockfile = NoFile

\* C10: reads take no lock.  No step of a find changes the lock file or the
\* backend; a find can take its next step in every state, whoever holds the
\* lock, and never goes beyond retry (3) attempts; and a process in find
\* owns no lock file.
C10_ReadsTakeNoLock ==
    /\ [][\A p \in Procs :
            FindCall(p) \/ FindStep(p)
                => lockfile' = lockfile /\ store' = store /\ mtime' = mtime]_vars
    /\ [](\A p \in Procs :
            pc[p] \in FindPcs =>
                /\ ENABLED FindStep(p)
                /\ attempt[p] <= retry
                /\ lockfile # LockContent(p))

\* a find is in its third attempt to load while the other process holds the
\* lock and is about to save
C10_Witness ==
    /\ pc[1] = "f_load" /\ attempt[1] = retry
    /\ pc[2] = "m_save" /\ lockfile = LockContent(2)

\* C11: the write is persisted before release.  The backend is written only
\* by the process that holds the lock file, at the save that follows its
\* reload and its mutation, and with the serialization of its in-memory
\* cache; from the save to the release the holder's cache does not change and
\* the backend holds its serialization; when a modify that is returning
\* normally removes its lock file, the backend content equals the
\* serialization of the caller's cache and the caller's last_sync is not
\* older than the backend's modification time.
Saved(p) == store.found /\ store.bytes = Serialize(cache[p])
Releasing(p) == pc[p] = "m_exit" /\ exc[p] = "none"
C11_PersistedBeforeRelease ==
    /\ [](\A p \in Procs :
            /\ pc[p] = "m_stamp" \/ Releasing(p)
                => Saved(p) /\ lockfile = LockContent(p)
            /\ Releasing(p) => last_sync[p] >= mtime)
    /\ [][\A p \in Procs :
            /\ pc[p] \in {"m_save", "m_stamp", "m_exit"} /\ pc'[p] # "idle"
                => cache'[p] = cache[p]
            /\ Releasing(p) /\ pc'[p] = "idle"
                => /\ result'[p] = "returned" /\ lockfile' = NoFile
                   /\ store' = store /\ mtime' = mtime
                   /\ cache'[p] = cache[p] /\ last_sync'[p] = last_sync[p]]_vars
    /\ [][store' # store \/ mtime' # mtime =>
            \E p \in Procs :
                /\ pc[p] = "m_save" /\ pc'[p] = "m_stamp"
                /\ lockfile = LockContent(p)
                /\ store' = [found |-> TRUE, bytes |-> Serialize(cache[p])]
                /\ mtime' >= mtime]_vars

\* a modify that reloaded the other instance's entry and added its own is
\* about to release the lock, the backend holding both entries
C11_Witness ==
    /\ Releasing(1) /\ call[1] = "modify" /\ loads[1] = 1
    /\ cache[1] = {1, 2} /\ Entries(store) = {1, 2}
    /\ lockfile = LockContent(1) /\ last_sync[1] >= mtime

\* C12: freshness invariant.  Whenever an instance is between calls and its
\* last_sync is not older than the backend's modification time, its in-memory
\* cache equals the deserialization of the backend's content.
BetweenCalls(p) == pc[p] = "idle"
C12_FreshnessInvariant ==
    \A p \in Procs :
        BetweenCalls(p) /\ BackendFound /\ last_sync[p] >= time_last_modified
            => cache[p] = Deserialize(load)

\* C13: last_sync is monotonically non-decreasing.  It starts at 0, and a
\* step changes an instance's last_sync only by assigning it the time the
\* clock then shows, which is not less than its previous value, and only
\* right after a successful load and deserialize (in find or in modify) or
\* right after a successful save.
Stamped(p) ==
    \/ pc[p] \in {"f_sync", "m_sync"} /\ loads'[p] = loads[p] /\ loads[p] > 0
    \/ pc[p] = "m_stamp" /\ Saved(p)
C13_LastSyncMonotone ==
    /\ [](\A p \in Procs :
            /\ last_sync[p] \in 0..now
            /\ call[p] = "none" => last_sync[p] = 0)
    /\ [][\A p \in Procs :
            /\ last_sync'[p] >= last_sync[p]
            /\ last_sync'[p] # last_sync[p]
                => Stamped(p) /\ last_sync'[p] = now']_vars

\* a modify has stamped last_sync twice, after its reload of the other
\* instance's entry and again after its own save, at the latest clock reading
C13_Witness ==
    /\ pc[1] = "m_exit" /\ exc[1] = "none" /\ loads[1] = 1
    /\ last_sync[1] = MaxTime /\ mtime = MaxTime /\ cache[1] = {1, 2}

\* C14: modify does not retry a failed reload.  A modify loads at most once;
\* when its load fails it leaves the with-body with that error at once, and
\* from there to its return it neither mutates its cache, nor saves (backend
\* content and modification time stay as they were), nor changes last_sync;
\* it ends by removing its lock file and raising the error to the caller,
\* after exactly one load.
ReloadFailed(p) == pc[p] = "m_exit" /\ exc[p] = "LoadError"
C14_ModifyNoRetry ==
    /\ [](\A p \in Procs :
            /\ call[p] = "modify" => loads[p] <= 1
            /\ ReloadFailed(p) => loads[p] = 1 /\ lockfile = LockContent(p)
            /\ pc[p] = "idle" /\ call[p] = "modify" /\ result[p] = "LoadError"
                => loads[p] = 1 /\ lockfile # LockContent(p))
    /\ [][\A p \in Procs :
            /\ pc[p] = "m_load" /\ loads'[p] # loads[p] /\ pc'[p] # "m_sync"
                => /\ ReloadFailed(p)'
                   /\ cache'[p] = cache[p] /\ last_sync'[p] = last_sync[p]
                   /\ store' = store /\ mtime' = mtime
            /\ ReloadFailed(p)
                => /\ cache'[p] = cache[p] /\ last_sync'[p] = last_sync[p]
                   /\ store' = store /\ mtime' = mtime
                   /\ loads'[p] = loads[p]
                   /\ \/ ReloadFailed(p)' /\ lockfile' = lockfile
                      \/ /\ pc'[p] = "idle" /\ result'[p] = "LoadError"
                         /\ lockfile' = NoFile]_vars

\* a modify has raised the error of its one load; the backend still holds
\* what the other instance saved, and the lock file is gone
C14_Witness ==
    /\ pc[1] = "idle" /\ call[1] = "modify" /\ result[1] = "LoadError"
    /\ loads[1] = 1 /\ last_sync[1] = 0 /\ cache[1] = {}
    /\ Entries(store) = {2} /\ lockfile = NoFile

\* C15: find stops at the first successful reload.  The attempt in which
\* find's load succeeds, the k-th, comes after k - 1 failed loads and is the
\* k-th load; find then stamps last_sync and returns the in-memory lookup
\* without raising and without a further attempt or load.  An attempt that
\* finds nothing to reload returns at once.  Every step of a find either ends
\* it or moves it forward in a measure bounded by retry (3) attempts, and a
\* step of it is always possible, so find makes at most 3 loads and
\* terminates.
FindRank(p) ==
    3 * attempt[p] + (CASE pc[p] = "f_check" -> 0
                        [] pc[p] = "f_load" -> 1
                        [] pc[p] = "f_sync" -> 2
                        [] OTHER -> 0)
C15_FindStopsAtSuccess ==
    /\ [](\A p \in Procs :
            /\ pc[p] \in FindPcs
                => FindRank(p) <= 3 * retry + 2 /\ ENABLED FindStep(p)
            /\ call[p] = "find" => loads[p] <= retry)
    /\ [][\A p \in Procs :
            /\ pc[p] = "f_load" /\ pc'[p] = "f_sync"
                => loads'[p] = attempt[p] /\ attempt'[p] = attempt[p]
            /\ pc[p] = "f_sync" /\ pc'[p] # "f_sync"
                => /\ pc'[p] = "idle" /\ result'[p] = "returned"
                   /\ loads'[p] = attempt[p] /\ cache'[p] = cache[p]
            /\ pc[p] = "f_check" /\ ~ReloadNeeded(p) /\ pc'[p] # "f_check"
                => /\ pc'[p] = "idle" /\ result'[p] = "returned"
                   /\ loads'[p] = attempt[p] - 1
            /\ pc[p] \in FindPcs /\ pc'[p] \in FindPcs /\ pc'[p] # pc[p]
                => FindRank(p)' > FindRank(p)
            /\ pc[p] = "idle" /\ call[p] = "find"
                => loads'[p] = loads[p] \/ call'[p] # call[p]
                                       \/ pc'[p] # "idle"]_vars

\* a find has returned after two loads: the first failed, the second
\* succeeded and was the last
C15_Witness ==
    /\ pc[1] = "idle" /\ call[1] = "find" /\ result[1] = "returned"
    /\ loads[1] = 2 /\ last_sync[1] > 0 /\ cache[1] = {2}

\* C16: a failed reload does not mark the instance as synced.  A load that
\* fails, in find or in modify, leaves last_sync and the in-memory cache as
\* they were; hence after a failed attempt of find the backend is still newer
\* than last_sync, the next attempt's comparison asks for a reload and loads
\* again, and an instance whose last call raised the load error still sees
\* the backend as newer, so that its next call loads again.
LoadFailedStep(p) ==
    /\ pc[p] \in {"f_load", "m_load"}
    /\ loads'[p] = loads[p] + 1
    /\ pc'[p] \notin {"f_sync", "m_sync"}
C16_FailedReloadNotSynced ==
    /\ [](\A p \in Procs :
            /\ pc[p] = "f_check" /\ loads[p] > 0 => ReloadNeeded(p)
            /\ pc[p] = "f_load" => ReloadNeeded(p) /\ loads[p] < retry
            /\ ReloadFailed(p) => ReloadNeeded(p)
            /\ pc[p] = "idle" /\ result[p] = "LoadError" => ReloadNeeded(p))
    /\ [][\A p \in Procs :
            /\ LoadFailedStep(p)
                => last_sync'[p] = last_sync[p] /\ cache'[p] = cache[p]
            /\ pc[p] = "f_check" /\ loads[p] > 0 /\ pc'[p] # "f_check"
                => pc'[p] = "f_load"
            /\ pc[p] = "idle" /\ result[p] = "LoadError" /\ pc'[p] = "f_check"
                => ReloadNeeded(p)']_vars

\* an instance that synced in an earlier call is loading for the second time
\* in one find: the first load failed and left last_sync at its earlier value
C16_Witness ==
    /\ pc[1] = "f_load" /\ attempt[1] = 2 /\ loads[1] = 1
    /\ last_sync[1] > 0 /\ last_sync[1] < mtime

\* C17: a modify that cannot acquire the lock raises LockError and has no
\* other effect.  From its call to its LockError the instance's cache and
\* last_sync do not change and it makes no load; the step that raises
\* LockError changes neither the backend nor the lock file, and no os.remove
\* is made (release is not attempted); it is taken only at or after the
\* deadline.
C17_LockErrorNoEffect ==
    /\ [](\A p \in Procs :
            /\ pc[p] = "acquire" => loads[p] = 0 /\ rmres[p] = "none"
            /\ pc[p] = "idle" /\ call[p] = "modify" /\ result[p] = "LockError"
                => loads[p] = 0 /\ rmres[p] = "none")
    /\ [][\A p \in Procs :
            /\ pc[p] = "acquire"
                => cache'[p] = cache[p] /\ last_sync'[p] = last_sync[p]
            /\ pc[p] = "acquire" /\ pc'[p] = "idle"
                => /\ result'[p] = "LockError" /\ elapsed[p] >= timeout
                   /\ lockfile' = lockfile
                   /\ store' = store /\ mtime' = mtime]_vars

\* a modify has raised LockError while the other process, still in its
\* with-body, holds the lock file; the caller's instance is as it was made
C17_Witness ==
    /\ pc[1] = "idle" /\ call[1] = "modify" /\ result[1] = "LockError"
    /\ cache[1] = {} /\ last_sync[1] = 0
    /\ lockfile = LockContent(2) /\ pc[2] = "m_save"

\* C18: lock file and holder correspond.  With nobody but the processes
\* touching the lock file, the lock file exists exactly when exactly one
\* process is between its successful acquire and its release, and the file
\* is then that process's; the lock file is created only by a successful
\* acquire and removed only by the release of the process that created it.
Holders == {p \in Procs : pc[p] \in InBody}
C18_LockFileHolder ==
    /\ [](/\ lockfile # NoFile <=> Cardinality(Holders) = 1
          /\ \A p \in Holders : lockfile = LockContent(p)
          /\ Cardinality(Holders) <= 1)
    /\ [][/\ lockfile = NoFile /\ lockfile' # NoFile
             => \E p \in Procs :
                    /\ pc[p] = "acquire" /\ pc'[p] = "m_check"
                    /\ lockfile' = LockContent(p)
          /\ lockfile # NoFile /\ lockfile' # lockfile
             => \E p \in Procs :
                    /\ pc[p] = "m_exit" /\ pc'[p] = "idle"
                    /\ lockfile = LockContent(p) /\ lockfile' = NoFile]_vars

\* one process has released, removing its own lock file, and the other has
\* then created its own and is the one holder
C18_Witness ==
    /\ pc[2] = "idle" /\ call[2] = "modify" /\ rmres[2] = "removed"
    /\ Holders = {1} /\ pc[1] = "m_check" /\ lockfile = LockContent(1)

\* C19: the lock is not reentrant.  While a lock file exists, no acquisition
\* of the same path succeeds, whether by another process or, nested, by the
\* holder itself: an acquisition succeeds only in a state without lock file,
\* and as long as nobody has removed the file by hand there is no lock file
\* exactly when no process holds the lock, so it succeeds only after the
\* first holder has released.  A nested acquisition finds its own process's
\* lock file for the whole timeout and fails with LockError, leaving the
\* lock file as it is: the first holder's file is still present afterwards.
Acquiring == {"acquire", "n_acquire"}
Holding(p) == pc[p] \in InBody \cup {"n_acquire"}
NestedFailed(p) == pc[p] = "m_exit" /\ exc[p] = "LockError"
C19_NotReentrant ==
    /\ [](~meddled =>
            /\ lockfile = NoFile <=> \A q \in Procs : ~Holding(q)
            /\ \A p \in Procs :
                /\ pc[p] # "n_exit"
                /\ pc[p] = "n_acquire" \/ NestedFailed(p)
                    => lockfile = LockContent(p))
    /\ [][\A p \in Procs :
            /\ pc[p] \in Acquiring /\ pc'[p] \in {"m_check", "n_exit"}
                => /\ lockfile = NoFile /\ lockfile' = LockContent(p)
                   /\ BeforeDeadline(p)
            /\ pc[p] \in Acquiring /\ lockfile # NoFile /\ BeforeDeadline(p)
                => pc'[p] = pc[p]
            /\ pc[p] = "n_acquire" /\ pc'[p] # pc[p] /\ pc'[p] # "n_exit"
                => /\ ~BeforeDeadline(p) /\ NestedFailed(p)'
                   /\ lockfile' = lockfile
            /\ pc[p] = "acquire" /\ pc'[p] = "idle"
                => /\ ~BeforeDeadline(p) /\ result'[p] = "LockError"
                   /\ lockfile' = lockfile]_vars

\* a nested acquisition has failed with LockError after the whole timeout,
\* and the first holder's lock file, its own, is still there
C19_Witness ==
    /\ NestedFailed(1) /\ call[1] = "modify" /\ ~meddled
    /\ lockfile = LockContent(1) /\ Saved(1) /\ pc[2] = "acquire"

====
